---- MODULE Spec2Model ----
(***************************************************************************)
(* Model of the two option-strategy regression algorithms                  *)
(*   Algorithm.Python/LongAndShortStraddleStrategiesAlgorithm.py           *)
(*   Algorithm.Python/LongAndShortStrangleStrategiesAlgorithm.py           *)
(* Three specifications share the operators translated from OnData:        *)
(*   SpecSelect  the contract selection of both algorithms, applied to an  *)
(*               option chain enumerated in an arbitrary order              *)
(*               (SpecStraddle, SpecStrangle: one of the two only);        *)
(*   SpecVerify  the position group verification, applied to an arbitrary  *)
(*               position group;                                           *)
(*   Spec        a whole run: OnData cycles, order fills by the engine,    *)
(*               Quit, OnEndOfAlgorithm.                                   *)
(***************************************************************************)
EXTENDS Integers, Sequences, FiniteSets

VARIABLES
    \* ---- selection (SpecSelect)
    chain,          \* the contracts of the option chain of the slice (a set)
    price,          \* chain.Underlying.Price
    policy,         \* "none" until a selection ran, then "Straddle" / "Strangle"
                    \* ("idle" outside the selection specifications)
    selection,      \* what the selection produced
    \* ---- verification (SpecVerify)
    positionGroup,  \* list(self.Portfolio.Positions.Groups)[0]
    verPc,          \* "input" | "done" ("idle" outside SpecVerify)
    verResult,      \* the failures the verification reported (a sequence)
    \* ---- a run (Spec)
    algo,           \* which of the two algorithms runs
    status,         \* "Running" | "Quit" | "RuntimeError" | "Ended" ("Idle": no run)
    strategy,       \* self._straddle / self._strangle
    shortStrategy,  \* self._short_straddle / self._short_strangle
    orders,         \* the orders of the transaction manager, in submission order
    cycle,          \* what the last OnData call did
    openRequests,   \* number of Buy(self._straddle, 2) calls so far
    closeRequests,  \* number of Buy(self._short_straddle, 2) calls so far
    lateFill,       \* TRUE once an OnData call started with an order still unfilled
    endCheck        \* outcome of OnEndOfAlgorithm

selVars == <<chain, price, policy, selection>>
verVars == <<positionGroup, verPc, verResult>>
runVars == <<algo, status, strategy, shortStrategy, orders, cycle, openRequests,
             closeRequests, lateFill, endCheck>>
vars == <<chain, price, policy, selection, positionGroup, verPc, verResult,
          algo, status, strategy, shortStrategy, orders, cycle, openRequests,
          closeRequests, lateFill, endCheck>>

(***************************************************************************)
(* Bounds and input sets                                                   *)
(***************************************************************************)
\* most contracts in a chain whose selection is examined
MaxChain == 4
\* most contracts in a chain handed to OnData in a run
MaxRunChain == 2
\* most positions in a position group handed to the verification
MaxLegs == 3
\* most times a run requests the opening strategy
MaxOpens == 2

Rights == {"Call", "Put"}
Strikes == {90, 95, 105, 110}
Expiries == {1, 2}
Prices == {95, 100}
Quantities == {-2, 2, 3}

Contracts == [Right : Rights, Strike : Strikes, Expiry : Expiries]

\* the strikes of the chains handed to OnData in a run
RunStrikes == {95, 105}

Abs(x) == IF x < 0 THEN -x ELSE x

\* every order in which a collection can be enumerated
RECURSIVE Enumerations(_)
Enumerations(S) ==
    IF S = {} THEN {<<>>}
    ELSE UNION {{<<x>> \o e : e \in Enumerations(S \ {x})} : x \in S}

Range(s) == {s[i] : i \in DOMAIN s}

(***************************************************************************)
(* Python built-ins used by OnData                                         *)
(***************************************************************************)
\* one step of a stable sort: x goes after every element that does not sort
\* after it (t is already sorted, so these form a prefix)
InsertSorted(t, x, key, reverse) ==
    LET n == Cardinality({i \in 1..Len(t) :
                 IF reverse THEN key[t[i]] >= key[x] ELSE key[t[i]] <= key[x]})
    IN SubSeq(t, 1, n) \o <<x>> \o SubSeq(t, n + 1, Len(t))

\* sorted(s, key=..., reverse=...): stable, also with reverse=True
Sorted(s, key, reverse) ==
    LET F[i \in 0..Len(s)] ==
            IF i = 0 THEN <<>> ELSE InsertSorted(F[i - 1], s[i], key, reverse)
    IN F[Len(s)]

\* [list(group) for _, group in itertools.groupby(s, key)]: a new group starts
\* whenever the key changes from one element to the next
GroupBy(s, key) ==
    LET G[i \in 0..Len(s)] ==
            IF i = 0 THEN <<>>
            ELSE LET groups == G[i - 1]
                 IN IF i > 1 /\ key[s[i]] = key[s[i - 1]]
                    THEN [groups EXCEPT ![Len(groups)] = Append(@, s[i])]
                    ELSE Append(groups, <<s[i]>>)
    IN G[Len(s)]

(***************************************************************************)
(* Selection keys                                                          *)
(***************************************************************************)
DistanceKey(p) == [c \in Contracts |-> Abs(p - c.Strike)]
ExpiryKey == [c \in Contracts |-> c.Expiry]
StrikeKey == [c \in Contracts |-> c.Strike]
StrikeExpiryKey == [c \in Contracts |-> <<c.Strike, c.Expiry>>]

\* contracts = sorted(sorted(chain, key=distance), key=expiry, reverse=True)
SortedChain(c, p) == Sorted(Sorted(c, DistanceKey(p), FALSE), ExpiryKey, TRUE)

NoPair == [Kind |-> "None"]

(***************************************************************************)
(* Straddle selection                                                      *)
(***************************************************************************)
HasCallAndPut(group) ==
    /\ \E i \in DOMAIN group : group[i].Right = "Call"
    /\ \E i \in DOMAIN group : group[i].Right = "Put"

StraddleGroups(c, p) == GroupBy(SortedChain(c, p), StrikeExpiryKey)

\* contracts = next(groupedContracts, [])
StraddleContracts(c, p) ==
    LET qualifying == SelectSeq(StraddleGroups(c, p), HasCallAndPut)
    IN IF qualifying = <<>> THEN <<>> ELSE qualifying[1]

StraddleSelection(c, p) ==
    LET contracts == StraddleContracts(c, p)
    IN IF Len(contracts) = 0 THEN NoPair
       ELSE [Kind |-> "Straddle", Strike |-> contracts[1].Strike,
             Expiry |-> contracts[1].Expiry]

(***************************************************************************)
(* Strangle selection                                                      *)
(***************************************************************************)
IsCall(x) == x.Right = "Call"
IsPut(x) == x.Right = "Put"

StrangleGroups(c, p) == GroupBy(SortedChain(c, p), ExpiryKey)

CallContractsAscending(group) == Sorted(SelectSeq(group, IsCall), StrikeKey, FALSE)

CallContracts(group) == Sorted(SelectSeq(group, IsCall), StrikeKey, TRUE)

PutContracts(group) == Sorted(SelectSeq(group, IsPut), StrikeKey, FALSE)

StrangleAcceptsAnyStrikes(group) ==
    LET callContracts == CallContracts(group)
        putContracts == PutContracts(group)
    IN /\ Len(callContracts) > 0
       /\ Len(putContracts) > 0

StrangleAccepts(group) ==
    LET callContracts == CallContracts(group)
        putContracts == PutContracts(group)
    IN /\ Len(callContracts) > 0
       /\ Len(putContracts) > 0
       /\ callContracts[1].Strike > putContracts[1].Strike

StrangleSelection(c, p) ==
    LET accepted == SelectSeq(StrangleGroups(c, p), StrangleAccepts)
        callContract == CallContracts(accepted[1])[1]
        putContract == PutContracts(accepted[1])[1]
    IN IF accepted = <<>> THEN NoPair
       ELSE [Kind |-> "Strangle",
             CallStrike |-> callContract.Strike,
             PutStrike |-> putContract.Strike,
             Expiry |-> callContract.Expiry]

(***************************************************************************)
(* SpecSelect: a chain, enumerated in some order, is handed to a selection *)
(***************************************************************************)
Snapshots(n) == {S \in SUBSET Contracts : Cardinality(S) <= n}

RunSnapshots ==
    {S \in SUBSET {c \in Contracts : c.Strike \in RunStrikes} :
        Cardinality(S) <= MaxRunChain}

NoCycle ==
    [Invested |-> FALSE, SelectorRan |-> FALSE, VerifierRan |-> FALSE,
     Group |-> [Model |-> "None", Positions |-> <<>>], Result |-> <<>>,
     OpenRequested |-> FALSE, CloseRequested |-> FALSE]

RunStart ==
    /\ strategy = NoPair
    /\ shortStrategy = NoPair
    /\ orders = <<>>
    /\ cycle = NoCycle
    /\ openRequests = 0
    /\ closeRequests = 0
    /\ lateFill = FALSE
    /\ endCheck = "none"

RunIdle ==
    /\ algo = "None"
    /\ status = "Idle"
    /\ RunStart

VerIdle ==
    /\ positionGroup = [Model |-> "None", Positions |-> <<>>]
    /\ verPc = "idle"
    /\ verResult = <<>>

SelIdle ==
    /\ chain = {}
    /\ price = 100
    /\ policy = "idle"
    /\ selection = NoPair

SelectInit ==
    /\ chain \in Snapshots(MaxChain)
    /\ price \in Prices
    /\ policy = "none"
    /\ selection = NoPair
    /\ VerIdle
    /\ RunIdle

SelectStraddle ==
    /\ policy = "none"
    /\ \E c \in Enumerations(chain) :
           selection' = StraddleSelection(c, price)
    /\ policy' = "Straddle"
    /\ UNCHANGED <<chain, price, verVars, runVars>>

SelectStrangle ==
    /\ policy = "none"
    /\ \E c \in Enumerations(chain) :
           selection' = StrangleSelection(c, price)
    /\ policy' = "Strangle"
    /\ UNCHANGED <<chain, price, verVars, runVars>>

SelectNext == SelectStraddle \/ SelectStrangle

SpecSelect == SelectInit /\ [][SelectNext]_vars

\* the same chains, handed to one selection only
SpecStraddle == SelectInit /\ [][SelectStraddle]_vars

SpecStrangle == SelectInit /\ [][SelectStrangle]_vars

(***************************************************************************)
(* Verification of the position group (the else branch of OnData)          *)
(***************************************************************************)
OptionStrategyModel == "OptionStrategyPositionGroupBuyingPowerModel"
Models == {OptionStrategyModel, "SecurityPositionGroupBuyingPowerModel"}

Positions == [Right : Rights, Quantity : Quantities]

expectedCallPositionQuantity == 2
expectedPutPositionQuantity == 2

\* next((position for position in positions if right == ...), None): the
\* index of the first position of that right, 0 for None
FirstPosition(positions, right) ==
    IF \E i \in DOMAIN positions : positions[i].Right = right
    THEN CHOOSE i \in DOMAIN positions :
             /\ positions[i].Right = right
             /\ \A j \in 1..(i - 1) : positions[j].Right # right
    ELSE 0

\* the checks in the order of the code; each failing check raises, so the
\* checks after it are not evaluated
VerifySkipsLegCount(pg) ==
    LET positions == pg.Positions
        call == FirstPosition(positions, "Call")
        put == FirstPosition(positions, "Put")
    IN IF pg.Model # OptionStrategyModel
         THEN <<"MISMATCHED_ACCOUNTING_MODEL">>
       ELSE IF call = 0 THEN <<"MISSING_LEG_CALL">>
       ELSE IF put = 0 THEN <<"MISSING_LEG_PUT">>
       ELSE IF positions[call].Quantity # expectedCallPositionQuantity
         THEN <<"QUANTITY_MISMATCH_CALL">>
       ELSE IF positions[put].Quantity # expectedPutPositionQuantity
         THEN <<"QUANTITY_MISMATCH_PUT">>
       ELSE <<>>

VerifyIgnoresPutQuantity(pg) ==
    LET positions == pg.Positions
        call == FirstPosition(positions, "Call")
        put == FirstPosition(positions, "Put")
    IN IF pg.Model # OptionStrategyModel
         THEN <<"MISMATCHED_ACCOUNTING_MODEL">>
       ELSE IF Len(positions) # 2 THEN <<"UNEXPECTED_LEG_COUNT">>
       ELSE IF call = 0 THEN <<"MISSING_LEG_CALL">>
       ELSE IF put = 0 THEN <<"MISSING_LEG_PUT">>
       ELSE IF positions[call].Quantity # expectedCallPositionQuantity
         THEN <<"QUANTITY_MISMATCH_CALL">>
       ELSE <<>>

Verify(pg) ==
    LET positions == pg.Positions
        call == FirstPosition(positions, "Call")
        put == FirstPosition(positions, "Put")
    IN IF pg.Model # OptionStrategyModel
         THEN <<"MISMATCHED_ACCOUNTING_MODEL">>
       ELSE IF Len(positions) # 2 THEN <<"UNEXPECTED_LEG_COUNT">>
       ELSE IF call = 0 THEN <<"MISSING_LEG_CALL">>
       ELSE IF put = 0 THEN <<"MISSING_LEG_PUT">>
       ELSE IF positions[call].Quantity # expectedCallPositionQuantity
         THEN <<"QUANTITY_MISMATCH_CALL">>
       ELSE IF positions[put].Quantity # expectedPutPositionQuantity
         THEN <<"QUANTITY_MISMATCH_PUT">>
       ELSE <<>>

(***************************************************************************)
(* SpecVerify: a position group is handed to the verification              *)
(***************************************************************************)
SeqsUpTo(S, n) == UNION {[1..k -> S] : k \in 0..n}

VerifyInit ==
    /\ positionGroup \in [Model : Models, Positions : SeqsUpTo(Positions, MaxLegs)]
    /\ verPc = "input"
    /\ verResult = <<>>
    /\ SelIdle
    /\ RunIdle

VerifyGroup ==
    /\ verPc = "input"
    /\ verResult' = Verify(positionGroup)
    /\ verPc' = "done"
    /\ UNCHANGED <<positionGroup, selVars, runVars>>

VerifyNext == VerifyGroup

SpecVerify == VerifyInit /\ [][VerifyNext]_vars

(***************************************************************************)
(* The engine around the algorithm: strategies, orders, holdings           *)
(***************************************************************************)
\* OptionStrategies.Straddle / ShortStraddle / Strangle / ShortStrangle: one
\* call leg and one put leg, bought (+1) or sold (-1)
TwoLegs(callStrike, putStrike, expiry, q) ==
    <<[Right |-> "Call", Strike |-> callStrike, Expiry |-> expiry, Quantity |-> q],
      [Right |-> "Put", Strike |-> putStrike, Expiry |-> expiry, Quantity |-> q]>>

Straddle(strike, expiry) ==
    [Name |-> "Straddle", Legs |-> TwoLegs(strike, strike, expiry, 1)]
ShortStraddle(strike, expiry) ==
    [Name |-> "Short Straddle", Legs |-> TwoLegs(strike, strike, expiry, -1)]
Strangle(callStrike, putStrike, expiry) ==
    [Name |-> "Strangle", Legs |-> TwoLegs(callStrike, putStrike, expiry, 1)]
ShortStrangle(callStrike, putStrike, expiry) ==
    [Name |-> "Short Strangle", Legs |-> TwoLegs(callStrike, putStrike, expiry, -1)]

\* self.Buy(strategy, quantity): one order for each leg
Buy(strat, quantity) ==
    [i \in DOMAIN strat.Legs |->
        [Right |-> strat.Legs[i].Right, Strike |-> strat.Legs[i].Strike,
         Expiry |-> strat.Legs[i].Expiry,
         Quantity |-> strat.Legs[i].Quantity * quantity, Status |-> "Submitted"]]

\* the quantity held of a contract: what its filled orders add up to
Holding(c) ==
    LET H[i \in 0..Len(orders)] ==
            IF i = 0 THEN 0
            ELSE H[i - 1] +
                 (IF /\ orders[i].Status = "Filled"
                     /\ orders[i].Right = c.Right
                     /\ orders[i].Strike = c.Strike
                     /\ orders[i].Expiry = c.Expiry
                  THEN orders[i].Quantity ELSE 0)
    IN H[Len(orders)]

HeldContracts == {c \in Contracts : Holding(c) # 0}

\* self.Portfolio.Invested
Invested == HeldContracts # {}

\* self.Transactions.GetOrders(lambda order: order.Status == OrderStatus.Filled)
FilledOrders == SelectSeq(orders, LAMBDA o : o.Status = "Filled")

\* list(self.Portfolio.Positions.Groups)[0]: how the engine groups the holdings
\* and which buying power model it gives the group is not the algorithm's: any
\* non-empty part of the holdings, in any order, under either model
PositionGroups ==
    {[Model |-> m,
      Positions |-> [i \in DOMAIN e |->
                        [Right |-> e[i].Right, Quantity |-> Holding(e[i])]]] :
        m \in Models,
        e \in UNION {Enumerations(H) : H \in (SUBSET HeldContracts) \ {{}}}}

(***************************************************************************)
(* Spec: a run of one of the two algorithms                                *)
(***************************************************************************)
Select(c, p) ==
    IF algo = "Straddle" THEN StraddleSelection(c, p) ELSE StrangleSelection(c, p)

\* self._straddle = OptionStrategies.Straddle(symbol, strike, expiry)
LongStrategy(sel) ==
    IF sel.Kind = "Straddle" THEN Straddle(sel.Strike, sel.Expiry)
    ELSE Strangle(sel.CallStrike, sel.PutStrike, sel.Expiry)

\* self._short_straddle = OptionStrategies.ShortStraddle(symbol, strike, expiry)
ShortStrategy(sel) ==
    IF sel.Kind = "Straddle" THEN ShortStraddle(sel.Strike, sel.Expiry)
    ELSE ShortStrangle(sel.CallStrike, sel.PutStrike, sel.Expiry)

\* the strategy bought to close the position
ClosingStrategyLong == strategy

ClosingStrategy == shortStrategy

\* self.Quit()
StatusAfterCloseRunning == "Running"

StatusAfterClose == "Quit"

\* the test that sends OnData to the selection
SelectsWhen == ~Invested

Init ==
    /\ algo \in {"Straddle", "Strangle"}
    /\ status = "Running"
    /\ RunStart
    /\ SelIdle
    /\ VerIdle

\* if not self.Portfolio.Invested: ... chain is None
OnDataNoChain ==
    /\ cycle' = [NoCycle EXCEPT !.Invested = Invested]
    /\ UNCHANGED <<status, strategy, shortStrategy, orders, openRequests,
                   closeRequests>>

\* if not self.Portfolio.Invested: ... chain is not None
OnDataSelect(c, p) ==
    LET sel == Select(c, p)
    IN IF sel = NoPair
       THEN /\ cycle' = [NoCycle EXCEPT !.Invested = Invested, !.SelectorRan = TRUE]
            /\ UNCHANGED <<status, strategy, shortStrategy, orders, openRequests,
                           closeRequests>>
       ELSE /\ openRequests < MaxOpens
            /\ strategy' = LongStrategy(sel)
            /\ shortStrategy' = ShortStrategy(sel)
            /\ orders' = orders \o Buy(LongStrategy(sel), 2)
            /\ openRequests' = openRequests + 1
            /\ cycle' = [NoCycle EXCEPT !.Invested = Invested, !.SelectorRan = TRUE,
                                        !.OpenRequested = TRUE]
            /\ UNCHANGED <<status, closeRequests>>

\* else: verify the position group, then close and quit
OnDataVerify(pg) ==
    IF Verify(pg) # <<>>
    THEN /\ status' = "RuntimeError"
         /\ cycle' = [NoCycle EXCEPT !.Invested = Invested, !.VerifierRan = TRUE,
                                     !.Group = pg, !.Result = Verify(pg)]
         /\ UNCHANGED <<strategy, shortStrategy, orders, openRequests, closeRequests>>
    ELSE /\ orders' = orders \o Buy(ClosingStrategy, 2)
         /\ closeRequests' = closeRequests + 1
         /\ status' = StatusAfterClose
         /\ cycle' = [NoCycle EXCEPT !.Invested = Invested, !.VerifierRan = TRUE,
                                     !.Group = pg, !.CloseRequested = TRUE]
         /\ UNCHANGED <<strategy, shortStrategy, openRequests>>

OnData ==
    /\ status = "Running"
    /\ lateFill' = (lateFill \/ \E i \in DOMAIN orders : orders[i].Status = "Submitted")
    /\ IF SelectsWhen
       THEN \/ OnDataNoChain
            \/ \E S \in RunSnapshots, p \in Prices :
                   \E c \in Enumerations(S) : OnDataSelect(c, p)
       ELSE \E pg \in PositionGroups : OnDataVerify(pg)
    /\ UNCHANGED <<algo, endCheck, selVars, verVars>>

\* the engine fills an order
Fill ==
    /\ status \in {"Running", "Quit"}
    /\ \E i \in DOMAIN orders :
           /\ orders[i].Status = "Submitted"
           /\ orders' = [orders EXCEPT ![i].Status = "Filled"]
    /\ UNCHANGED <<algo, status, strategy, shortStrategy, cycle, openRequests,
                   closeRequests, lateFill, endCheck, selVars, verVars>>

ExpectedOrdersCount == 4

OnEndOfAlgorithm ==
    /\ status \in {"Running", "Quit"}
    /\ status' = "Ended"
    /\ endCheck' = IF Invested THEN "RESIDUAL_POSITION"
                   ELSE IF Len(FilledOrders) # ExpectedOrdersCount
                        THEN "ORDER_COUNT_MISMATCH"
                   ELSE "Ok"
    /\ UNCHANGED <<algo, strategy, shortStrategy, orders, cycle, openRequests,
                   closeRequests, lateFill, selVars, verVars>>

Next == OnData \/ Fill \/ OnEndOfAlgorithm

Spec == Init /\ [][Next]_vars

(***************************************************************************)
(* Claims about the selection                                              *)
(***************************************************************************)
\* the (strike, expiry) keys of a snapshot that have a CALL and a PUT
QualifyingKeys(S) ==
    {k \in Strikes \X Expiries :
        /\ [Right |-> "Call", Strike |-> k[1], Expiry |-> k[2]] \in S
        /\ [Right |-> "Put", Strike |-> k[1], Expiry |-> k[2]] \in S}

\* k comes no later than k2 when ordered by ascending distance from the
\* underlying price, then by descending expiry
NoLaterByDistanceThenExpiry(k, k2, p) ==
    \/ Abs(p - k[1]) < Abs(p - k2[1])
    \/ Abs(p - k[1]) = Abs(p - k2[1]) /\ k[2] >= k2[2]

\* C1: the straddle selected is, among the strike/expiry groups with a CALL
\* and a PUT, one closest to the underlying price, and among the closest ones
\* one with the latest expiry.
C1_ClosestThenLatest ==
    (policy = "Straddle" /\ selection.Kind = "Straddle") =>
        /\ <<selection.Strike, selection.Expiry>> \in QualifyingKeys(chain)
        /\ \A k2 \in QualifyingKeys(chain) :
               NoLaterByDistanceThenExpiry(
                   <<selection.Strike, selection.Expiry>>, k2, price)

\* C2: the straddle selection gives "no pair" exactly when no strike/expiry of
\* the snapshot has both a CALL and a PUT.
C2_NoPairIffNoQualifyingKey ==
    policy = "Straddle" =>
        (selection = NoPair <=> QualifyingKeys(chain) = {})

\* C3: whatever the order in which the chain is enumerated, each selection
\* gives the same result for the same contracts and underlying price.
C3_OrderIndependent ==
    /\ policy = "Straddle" =>
           \A c \in Enumerations(chain) : StraddleSelection(c, price) = selection
    /\ policy = "Strangle" =>
           \A c \in Enumerations(chain) : StrangleSelection(c, price) = selection

\* the snapshot of C4 at expiry e
C4Snapshot(e) ==
    {[Right |-> "Call", Strike |-> 105, Expiry |-> e],
     [Right |-> "Call", Strike |-> 110, Expiry |-> e],
     [Right |-> "Put", Strike |-> 90, Expiry |-> e],
     [Right |-> "Put", Strike |-> 95, Expiry |-> e]}

\* C4 as stated: on {CALL 105, CALL 110, PUT 90, PUT 95} of one expiry the
\* strangle selected is (CALL 105, PUT 95).
C4_NearestPair ==
    \A e \in Expiries :
        (policy = "Strangle" /\ chain = C4Snapshot(e)) =>
            selection = [Kind |-> "Strangle", CallStrike |-> 105,
                         PutStrike |-> 95, Expiry |-> e]

\* C4 as amended: on {CALL 105, CALL 110, PUT 90, PUT 95} of one expiry the
\* strangle selected is (CALL 110, PUT 90), the highest-strike call and the
\* lowest-strike put.
C4_WidestPair ==
    \A e \in Expiries :
        (policy = "Strangle" /\ chain = C4Snapshot(e)) =>
            selection = [Kind |-> "Strangle", CallStrike |-> 110,
                         PutStrike |-> 90, Expiry |-> e]

C4_Witness ==
    /\ policy = "Strangle"
    /\ chain = C4Snapshot(1)
    /\ selection.Kind = "Strangle"

StrikesOf(S, right, e) == {c.Strike : c \in {x \in S : x.Right = right /\ x.Expiry = e}}

SetMax(S) == CHOOSE x \in S : \A y \in S : y <= x
SetMin(S) == CHOOSE x \in S : \A y \in S : x <= y

\* C5: a strangle that is selected has its call and its put at one expiry, the
\* call is the highest-strike CALL and the put the lowest-strike PUT of the
\* snapshot at that expiry, and the call strike is above the put strike.
C5_StrangleShape ==
    (policy = "Strangle" /\ selection # NoPair) =>
        /\ selection.Kind = "Strangle"
        /\ selection.Expiry \in Expiries
        /\ StrikesOf(chain, "Call", selection.Expiry) # {}
        /\ StrikesOf(chain, "Put", selection.Expiry) # {}
        /\ selection.CallStrike = SetMax(StrikesOf(chain, "Call", selection.Expiry))
        /\ selection.PutStrike = SetMin(StrikesOf(chain, "Put", selection.Expiry))
        /\ selection.CallStrike > selection.PutStrike

C5_Witness ==
    /\ policy = "Strangle"
    /\ selection.Kind = "Strangle"
    /\ Cardinality(StrikesOf(chain, "Call", selection.Expiry)) = 2
    /\ \E c \in chain : c.Expiry # selection.Expiry

\* an expiry whose highest CALL strike is above its lowest PUT strike
ExpiryQualifies(S, e) ==
    /\ StrikesOf(S, "Call", e) # {}
    /\ StrikesOf(S, "Put", e) # {}
    /\ SetMax(StrikesOf(S, "Call", e)) > SetMin(StrikesOf(S, "Put", e))

MinDistance(S, e, p) == SetMin({Abs(p - c.Strike) : c \in {x \in S : x.Expiry = e}})

\* e first appears before e2 in the contracts sorted by ascending distance,
\* then descending expiry
VisitedBefore(S, e, e2, p) ==
    \/ MinDistance(S, e, p) < MinDistance(S, e2, p)
    \/ MinDistance(S, e, p) = MinDistance(S, e2, p) /\ e > e2

\* C9: the strangle selected is the pair of the first qualifying expiry in the
\* order in which expiries first appear among the contracts sorted by ascending
\* distance from the underlying price, then descending expiry; "no pair" when
\* no expiry qualifies.
C9_ClosestExpiryFirst ==
    policy = "Strangle" =>
        LET qualifying == {e \in Expiries : ExpiryQualifies(chain, e)}
        IN IF qualifying = {} THEN selection = NoPair
           ELSE /\ selection.Kind = "Strangle"
                /\ selection.Expiry \in qualifying
                /\ \A e2 \in qualifying \ {selection.Expiry} :
                       VisitedBefore(chain, selection.Expiry, e2, price)
                /\ selection.CallStrike =
                       SetMax(StrikesOf(chain, "Call", selection.Expiry))
                /\ selection.PutStrike =
                       SetMin(StrikesOf(chain, "Put", selection.Expiry))

(***************************************************************************)
(* Claims about the verification                                           *)
(***************************************************************************)
CheckOrder ==
    <<"MISMATCHED_ACCOUNTING_MODEL", "UNEXPECTED_LEG_COUNT", "MISSING_LEG_CALL",
      "MISSING_LEG_PUT", "QUANTITY_MISMATCH_CALL", "QUANTITY_MISMATCH_PUT">>

LegsOf(pg, right) == {i \in DOMAIN pg.Positions : pg.Positions[i].Right = right}

\* the checks a position group violates, each taken on its own; the quantity
\* of a side is that of its first leg
ViolatedChecks(pg) ==
    {k \in Range(CheckOrder) :
        \/ k = "MISMATCHED_ACCOUNTING_MODEL" /\ pg.Model # OptionStrategyModel
        \/ k = "UNEXPECTED_LEG_COUNT" /\ Len(pg.Positions) # 2
        \/ k = "MISSING_LEG_CALL" /\ LegsOf(pg, "Call") = {}
        \/ k = "MISSING_LEG_PUT" /\ LegsOf(pg, "Put") = {}
        \/ k = "QUANTITY_MISMATCH_CALL" /\ LegsOf(pg, "Call") # {}
               /\ pg.Positions[SetMin(LegsOf(pg, "Call"))].Quantity # 2
        \/ k = "QUANTITY_MISMATCH_PUT" /\ LegsOf(pg, "Put") # {}
               /\ pg.Positions[SetMin(LegsOf(pg, "Put"))].Quantity # 2}

FirstViolated(pg) ==
    CheckOrder[SetMin({i \in DOMAIN CheckOrder : CheckOrder[i] \in ViolatedChecks(pg)})]

\* C6 as stated: the verification reports every check the position group
\* violates, one failure for each.
C6_ReportsEveryViolation ==
    verPc = "done" =>
        /\ ViolatedChecks(positionGroup) \subseteq Range(verResult)
        /\ Len(verResult) = Cardinality(ViolatedChecks(positionGroup))

\* C6 as amended: the verification reports nothing when no check is violated
\* and otherwise exactly one failure, the first violated check in the order
\* model tag, leg count, CALL leg present, PUT leg present, CALL quantity,
\* PUT quantity.
C6_ReportsFirstViolation ==
    verPc = "done" =>
        verResult = IF ViolatedChecks(positionGroup) = {} THEN <<>>
                    ELSE <<FirstViolated(positionGroup)>>

\* wrong model tag, CALL quantity mismatch and PUT quantity mismatch on a
\* two-leg call+put group
C6_Witness ==
    /\ verPc = "done"
    /\ Len(positionGroup.Positions) = 2
    /\ ViolatedChecks(positionGroup) =
           {"MISMATCHED_ACCOUNTING_MODEL", "QUANTITY_MISMATCH_CALL",
            "QUANTITY_MISMATCH_PUT"}
    /\ verResult = <<"MISMATCHED_ACCOUNTING_MODEL">>

\* everything the verification asks of a position group
AllChecksHold(pg) ==
    /\ pg.Model = OptionStrategyModel
    /\ Len(pg.Positions) = 2
    /\ Cardinality(LegsOf(pg, "Call")) = 1
    /\ Cardinality(LegsOf(pg, "Put")) = 1
    /\ \A i \in LegsOf(pg, "Call") : pg.Positions[i].Quantity = 2
    /\ \A i \in LegsOf(pg, "Put") : pg.Positions[i].Quantity = 2

\* C7 as stated: the verification passes exactly when the model tag is the
\* option strategy model, there are 2 legs, one CALL and one PUT, of quantity
\* 2 each; a group of 3 legs fails with the leg-count failure.
C7_PassIffAndThreeLegs ==
    verPc = "done" =>
        /\ verResult = <<>> <=> AllChecksHold(positionGroup)
        /\ Len(positionGroup.Positions) = 3 =>
               verResult = <<"UNEXPECTED_LEG_COUNT">>

\* C7 as amended: the verification passes exactly when the model tag is the
\* option strategy model, there are 2 legs, one CALL and one PUT, of quantity
\* 2 each; a group of 3 legs with the option strategy model tag fails with the
\* leg-count failure, and a group of 3 legs never fails with a side or
\* quantity failure.
C7_PassIffAndThreeLegsTagged ==
    verPc = "done" =>
        /\ verResult = <<>> <=> AllChecksHold(positionGroup)
        /\ (Len(positionGroup.Positions) = 3
               /\ positionGroup.Model = OptionStrategyModel) =>
               verResult = <<"UNEXPECTED_LEG_COUNT">>
        /\ Len(positionGroup.Positions) = 3 =>
               verResult \in {<<"UNEXPECTED_LEG_COUNT">>,
                              <<"MISMATCHED_ACCOUNTING_MODEL">>}

C7_Witness ==
    /\ verPc = "done"
    /\ Len(positionGroup.Positions) = 3
    /\ positionGroup.Model = OptionStrategyModel
    /\ verResult = <<"UNEXPECTED_LEG_COUNT">>

(***************************************************************************)
(* Claims about a run                                                      *)
(***************************************************************************)
AllOrdersFilled == \A i \in DOMAIN orders : orders[i].Status = "Filled"

\* a run that ended after a selection gave a pair, in which every order was
\* filled before the next OnData call, the verification passed and the closing
\* orders were filled
C8_Premises ==
    /\ status = "Ended"
    /\ openRequests >= 1
    /\ ~lateFill
    /\ cycle.VerifierRan
    /\ cycle.Result = <<>>
    /\ AllOrdersFilled

\* order j takes back order i
Closes(j, i) ==
    /\ orders[j].Right = orders[i].Right
    /\ orders[j].Strike = orders[i].Strike
    /\ orders[j].Expiry = orders[i].Expiry
    /\ orders[j].Quantity = -orders[i].Quantity

\* C8: a run in which a snapshot gives a pair, the opening orders fill before
\* the next cycle, the verification passes and the closing orders fill ends
\* with no position open and exactly 4 filled orders, so that the end-of-run
\* check passes; the opening strategy was requested once and the closing
\* strategy once, for the strikes and expiry of the opening one.
C8_RoundTrip ==
    C8_Premises =>
        /\ ~Invested
        /\ Len(FilledOrders) = 4
        /\ endCheck = "Ok"
        /\ openRequests = 1
        /\ closeRequests = 1
        /\ Len(orders) = 4
        /\ orders[1].Quantity = 2 /\ orders[2].Quantity = 2
        /\ Closes(3, 1) /\ Closes(4, 2)

C8_Witness ==
    /\ C8_Premises
    /\ algo = "Strangle"
    /\ endCheck = "Ok"
    /\ orders[1].Strike = 105 /\ orders[2].Strike = 95

\* what the last cycle did is consistent with the position it found
C10_CycleOk ==
    /\ cycle.SelectorRan => ~cycle.Invested
    /\ cycle.OpenRequested => cycle.SelectorRan
    /\ cycle.CloseRequested =>
           /\ cycle.Invested
           /\ cycle.VerifierRan
           /\ cycle.Result = <<>>
           /\ ViolatedChecks(cycle.Group) = {}
    /\ (cycle.VerifierRan /\ ViolatedChecks(cycle.Group) # {}) =>
           /\ ~cycle.CloseRequested
           /\ cycle.Result # <<>>
           /\ status = "RuntimeError"
    /\ closeRequests >= 1 => status \in {"Quit", "Ended"}

\* once the closing order is requested, or the verification failed, no cycle
\* runs and no order is requested
C10_NothingAfterHalt ==
    (closeRequests >= 1 \/ status = "RuntimeError") =>
        /\ cycle' = cycle
        /\ openRequests' = openRequests
        /\ closeRequests' = closeRequests
        /\ Len(orders') = Len(orders)
        /\ strategy' = strategy
        /\ shortStrategy' = shortStrategy

\* C10: the selection runs only in cycles with no position open; the closing
\* order is requested only in a cycle with a position open whose verification
\* passed every check; a failed check requests no closing order and halts the
\* run with the failure; after the closing order is requested the run quits
\* and selects, orders and verifies no more.
C10_ControlFlow == [](C10_CycleOk) /\ [][C10_NothingAfterHalt]_vars

C10_Witness ==
    /\ status = "Quit"
    /\ closeRequests = 1
    /\ cycle.CloseRequested
    /\ cycle.Invested
    /\ AllOrdersFilled

====
